---- MODULE Spec2Model ----
(***************************************************************************)
(* Model of src/kubernetes/stream.rs: body(), the adaptor that turns an    *)
(* HTTP response body (a pull-based source of byte chunks) into a lazy     *)
(* stream of Result<T, Error>.                                             *)
(*                                                                         *)
(* The generator written with try_stream! is modelled by its position      *)
(* (pc), its locals (decoder, responses) and the consumer's outstanding    *)
(* pull (polling).  MultiResponseDecoder lives in another file of the      *)
(* crate; it is modelled from its contract over a small byte alphabet.     *)
(***************************************************************************)
EXTENDS Naturals, Sequences, FiniteSets

\* Total number of bytes the body delivers in one run.
MaxBytes == 4

\* Pulls the consumer makes after the stream has returned None.
MaxPullsAfterEnd == 2

(***************************************************************************)
(* Bytes.  "1" is a complete one-byte document, "{" "}" a two-byte         *)
(* document, "n" the literal null document (decodes as JSON, then fails as *)
(* a data error), "x" a byte no JSON document can start with, "u" a byte   *)
(* that is not valid UTF-8.                                                *)
(***************************************************************************)
Byte == {"1", "{", "}", "n", "x", "u"}

\* Errors the body (hyper) can report for a read.
ReadError == {"reset", "timeout"}

RECURSIVE SeqsUpTo(_, _)
SeqsUpTo(S, n) ==
    IF n = 0 THEN {<<>>}
    ELSE LET shorter == SeqsUpTo(S, n - 1)
         IN  shorter \cup {Append(s, b) : s \in {t \in shorter : Len(t) = n - 1}, b \in S}

\* A chunk: a non-empty buffer of bytes.
Chunk(n) == {c \in SeqsUpTo(Byte, n) : Len(c) >= 1}

(***************************************************************************)
(* Result<T, ResponseError> values returned by the decoder.                *)
(***************************************************************************)
OkResponse(v) == [ok |-> TRUE, variant |-> "", class |-> "", val |-> v]

JsonError(c) == [ok |-> FALSE, variant |-> "Json", class |-> c, val |-> ""]

Utf8Error == [ok |-> FALSE, variant |-> "Utf8", class |-> "", val |-> ""]

(***************************************************************************)
(* MultiResponseDecoder.  TryFromParts reads one document from the front   *)
(* of the buffer: a record, a failure, or "need more data".                *)
(***************************************************************************)
TryFromParts(buf) ==
    IF buf = <<>> THEN [need |-> TRUE, resp |-> Utf8Error, used |-> 0]
    ELSE IF buf[1] = "1" THEN [need |-> FALSE, resp |-> OkResponse("1"), used |-> 1]
    ELSE IF buf[1] = "n" THEN [need |-> FALSE, resp |-> JsonError("data"), used |-> 1]
    ELSE IF buf[1] = "u" THEN [need |-> FALSE, resp |-> Utf8Error, used |-> 1]
    ELSE IF buf[1] # "{" THEN [need |-> FALSE, resp |-> JsonError("syntax"), used |-> 1]
    ELSE IF Len(buf) = 1 THEN [need |-> TRUE, resp |-> Utf8Error, used |-> 0]
    ELSE IF buf[2] = "}" THEN [need |-> FALSE, resp |-> OkResponse("{}"), used |-> 2]
    ELSE [need |-> FALSE, resp |-> JsonError("syntax"), used |-> 2]

RECURSIVE Decode(_)
Decode(buf) ==
    LET p == TryFromParts(buf)
    IN  IF p.need THEN [responses |-> <<>>, pending |-> buf]
        ELSE LET rest == Decode(SubSeq(buf, p.used + 1, Len(buf)))
             IN  [responses |-> <<p.resp>> \o rest.responses, pending |-> rest.pending]

\* decoder.process_next_chunk(chunk): the outcomes, and the buffer left.
process_next_chunk(pending, chunk) == Decode(pending \o chunk)

\* decoder.finish(): Ok(()) when nothing is buffered, else Err(buffer).
finish(pending) == [ok |-> pending = <<>>, data |-> pending, pending |-> <<>>]

(***************************************************************************)
(* Items of the output stream: Result<T, Error<ReadError>>.                *)
(***************************************************************************)
OkItem(response) ==
    [tag |-> "Ok", kind |-> "Record", val |-> response.val, class |-> "", data |-> <<>>]

Reading(e) ==
    [tag |-> "Err", kind |-> "Reading", val |-> e, class |-> "", data |-> <<>>]

Parsing(response) ==
    [tag |-> "Err", kind |-> "Parsing", val |-> response.variant,
     class |-> response.class, data |-> <<>>]

UnparsedDataUponCompletion(d) ==
    [tag |-> "Err", kind |-> "UnparsedDataUponCompletion", val |-> "", class |-> "",
     data |-> d]

\* error.is_data()
is_data(response) == response.class = "data"

\* IsStreamEnd without the is_data() test: any JSON error ends the stream.
IsStreamEndAnyJson(response) ==
    /\ ~response.ok
    /\ response.variant = "Json"

\* IsStreamEnd with the workaround left out.
IsStreamEndNever(response) == FALSE

\* if let Err(ResponseError::Json(error)) = &response { if error.is_data() {..} }
IsStreamEnd(response) ==
    /\ ~response.ok
    /\ response.variant = "Json"
    /\ is_data(response)

VARIABLES
    bodyState,    \* the body: "open", "exhausted", or the read error it reported
    pc,           \* the generator: "data" (at body.data().await), "for", "done"
    polling,      \* TRUE while the consumer's poll of the stream is being served
    decoder,      \* the decoder's buffered bytes
    responses,    \* the outcomes of the current chunk not yet looked at
    out,          \* the items the stream has yielded, in order
    nones,        \* how many pulls have returned None
    fed,          \* the chunks read from the body, in order
    returned,     \* the list of outcomes each process_next_chunk call returned
    events,       \* byte_size of each ChunkProcessed event emitted
    finishCalls   \* how many times decoder.finish() was called

vars == <<bodyState, pc, polling, decoder, responses, out, nones, fed, returned,
          events, finishCalls>>

RECURSIVE Flatten(_)
Flatten(ss) == IF ss = <<>> THEN <<>> ELSE Head(ss) \o Flatten(Tail(ss))

Init ==
    /\ bodyState = "open"
    /\ pc = "data"
    /\ polling = FALSE
    /\ decoder = <<>>
    /\ responses = <<>>
    /\ out = <<>>
    /\ nones = 0
    /\ fed = <<>>
    /\ returned = <<>>
    /\ events = <<>>
    /\ finishCalls = 0

\* The consumer polls a stream whose generator has not returned.
Pull ==
    /\ ~polling
    /\ pc # "done"
    /\ polling' = TRUE
    /\ UNCHANGED <<bodyState, pc, decoder, responses, out, nones, fed, returned,
                   events, finishCalls>>

\* The consumer polls a stream whose generator has returned: None.
PullDone ==
    /\ ~polling
    /\ pc = "done"
    /\ nones <= MaxPullsAfterEnd
    /\ nones' = nones + 1
    /\ UNCHANGED <<bodyState, pc, polling, decoder, responses, out, fed, returned,
                   events, finishCalls>>

\* Bytes the body can still deliver.
Remaining == MaxBytes - Len(Flatten(fed))

\* DataChunk with the decoder created anew for every chunk.
DataChunkFreshDecoder ==
    /\ polling
    /\ pc = "data"
    /\ bodyState = "open"
    /\ Remaining > 0
    /\ \E chunk \in Chunk(Remaining) :
          LET r == process_next_chunk(<<>>, chunk)
          IN  /\ decoder' = r.pending
              /\ responses' = r.responses
              /\ returned' = Append(returned, r.responses)
              /\ fed' = Append(fed, chunk)
              /\ events' = Append(events, Len(chunk))
    /\ pc' = "for"
    /\ UNCHANGED <<bodyState, polling, out, nones, finishCalls>>

\* DataChunk reporting the decoder's buffer length, not the chunk's.
DataChunkEventOfBuffer ==
    /\ polling
    /\ pc = "data"
    /\ bodyState = "open"
    /\ Remaining > 0
    /\ \E chunk \in Chunk(Remaining) :
          LET r == process_next_chunk(decoder, chunk)
          IN  /\ decoder' = r.pending
              /\ responses' = r.responses
              /\ returned' = Append(returned, r.responses)
              /\ fed' = Append(fed, chunk)
              /\ events' = Append(events, Len(decoder \o chunk))
    /\ pc' = "for"
    /\ UNCHANGED <<bodyState, polling, out, nones, finishCalls>>

\* body.data().await is Some(Ok(buf)): process the chunk, emit the event.
DataChunk ==
    /\ polling
    /\ pc = "data"
    /\ bodyState = "open"
    /\ Remaining > 0
    /\ \E chunk \in Chunk(Remaining) :
          LET r == process_next_chunk(decoder, chunk)
          IN  /\ decoder' = r.pending
              /\ responses' = r.responses
              /\ returned' = Append(returned, r.responses)
              /\ fed' = Append(fed, chunk)
              /\ events' = Append(events, Len(chunk))
    /\ pc' = "for"
    /\ UNCHANGED <<bodyState, polling, out, nones, finishCalls>>

\* DataError with the failed read taken for the end of the body.
DataErrorAsEnd ==
    /\ polling
    /\ pc = "data"
    /\ bodyState = "open"
    /\ \E e \in ReadError : bodyState' = e
    /\ nones' = nones + 1
    /\ polling' = FALSE
    /\ pc' = "done"
    /\ UNCHANGED <<decoder, responses, out, fed, returned, events, finishCalls>>

\* body.data().await is Some(Err(e)): buf.context(Reading)? ends the stream.
DataError ==
    /\ polling
    /\ pc = "data"
    /\ bodyState = "open"
    /\ \E e \in ReadError :
          /\ bodyState' = e
          /\ out' = Append(out, Reading(e))
    /\ polling' = FALSE
    /\ pc' = "done"
    /\ UNCHANGED <<decoder, responses, nones, fed, returned, events, finishCalls>>

\* DataNone with the call of decoder.finish() left out.
DataNoneNoFinish ==
    /\ polling
    /\ pc = "data"
    /\ bodyState = "open"
    /\ bodyState' = "exhausted"
    /\ nones' = nones + 1
    /\ polling' = FALSE
    /\ pc' = "done"
    /\ UNCHANGED <<decoder, responses, out, fed, returned, events, finishCalls>>

\* body.data().await is None: leave the loop and call decoder.finish().
DataNone ==
    /\ polling
    /\ pc = "data"
    /\ bodyState = "open"
    /\ bodyState' = "exhausted"
    /\ finishCalls' = finishCalls + 1
    /\ LET f == finish(decoder)
       IN  /\ decoder' = f.pending
           /\ IF f.ok
              THEN /\ nones' = nones + 1
                   /\ out' = out
              ELSE /\ out' = Append(out, UnparsedDataUponCompletion(f.data))
                   /\ nones' = nones
    /\ polling' = FALSE
    /\ pc' = "done"
    /\ UNCHANGED <<responses, fed, returned, events>>

\* ForEnd suspending at the end of the list with nothing to wake it.
ForEndStuck ==
    /\ polling
    /\ pc = "for"
    /\ responses = <<>>
    /\ UNCHANGED vars

\* for response in responses: the list is used up, back to the while loop.
ForEnd ==
    /\ polling
    /\ pc = "for"
    /\ responses = <<>>
    /\ pc' = "data"
    /\ UNCHANGED <<bodyState, polling, decoder, responses, out, nones, fed, returned,
                   events, finishCalls>>

\* ForStreamEnd leaving the loops instead of returning: finish() is reached.
ForStreamEndThenFinish ==
    /\ polling
    /\ pc = "for"
    /\ responses # <<>>
    /\ IsStreamEnd(Head(responses))
    /\ finishCalls' = finishCalls + 1
    /\ LET f == finish(decoder)
       IN  /\ decoder' = f.pending
           /\ IF f.ok
              THEN /\ nones' = nones + 1
                   /\ out' = out
              ELSE /\ out' = Append(out, UnparsedDataUponCompletion(f.data))
                   /\ nones' = nones
    /\ polling' = FALSE
    /\ pc' = "done"
    /\ responses' = <<>>
    /\ UNCHANGED <<bodyState, fed, returned, events>>

\* A JSON data error: handled as the end of the stream (return).
ForStreamEnd ==
    /\ polling
    /\ pc = "for"
    /\ responses # <<>>
    /\ IsStreamEnd(Head(responses))
    /\ nones' = nones + 1
    /\ polling' = FALSE
    /\ pc' = "done"
    /\ responses' = <<>>
    /\ UNCHANGED <<bodyState, decoder, out, fed, returned, events, finishCalls>>

\* ForParsing with the failure yielded as an item and the loop going on.
ForParsingContinue ==
    /\ polling
    /\ pc = "for"
    /\ responses # <<>>
    /\ ~IsStreamEnd(Head(responses))
    /\ ~Head(responses).ok
    /\ out' = Append(out, Parsing(Head(responses)))
    /\ polling' = FALSE
    /\ responses' = Tail(responses)
    /\ UNCHANGED <<bodyState, pc, decoder, nones, fed, returned, events, finishCalls>>

\* Any other failure: response.context(Parsing)? ends the stream.
ForParsing ==
    /\ polling
    /\ pc = "for"
    /\ responses # <<>>
    /\ ~IsStreamEnd(Head(responses))
    /\ ~Head(responses).ok
    /\ out' = Append(out, Parsing(Head(responses)))
    /\ polling' = FALSE
    /\ pc' = "done"
    /\ responses' = <<>>
    /\ UNCHANGED <<bodyState, decoder, nones, fed, returned, events, finishCalls>>

\* ForYield walking the list from its last outcome to its first.
ForYieldReversed ==
    /\ polling
    /\ pc = "for"
    /\ responses # <<>>
    /\ Head(responses).ok
    /\ out' = Append(out, OkItem(responses[Len(responses)]))
    /\ responses' = SubSeq(responses, 1, Len(responses) - 1)
    /\ polling' = FALSE
    /\ UNCHANGED <<bodyState, pc, decoder, nones, fed, returned, events, finishCalls>>

\* ForYield dropping the rest of the list after its first record.
ForYieldFirstOnly ==
    /\ polling
    /\ pc = "for"
    /\ responses # <<>>
    /\ Head(responses).ok
    /\ out' = Append(out, OkItem(Head(responses)))
    /\ responses' = <<>>
    /\ polling' = FALSE
    /\ UNCHANGED <<bodyState, pc, decoder, nones, fed, returned, events, finishCalls>>

\* ForYield handing the item over and running on without waiting for a pull.
ForYieldKeepRunning ==
    /\ polling
    /\ pc = "for"
    /\ responses # <<>>
    /\ Head(responses).ok
    /\ out' = Append(out, OkItem(Head(responses)))
    /\ responses' = Tail(responses)
    /\ UNCHANGED <<bodyState, pc, polling, decoder, nones, fed, returned, events,
                   finishCalls>>

\* A record: yield response.
ForYield ==
    /\ polling
    /\ pc = "for"
    /\ responses # <<>>
    /\ Head(responses).ok
    /\ out' = Append(out, OkItem(Head(responses)))
    /\ responses' = Tail(responses)
    /\ polling' = FALSE
    /\ UNCHANGED <<bodyState, pc, decoder, nones, fed, returned, events, finishCalls>>

Next ==
    \/ Pull
    \/ PullDone
    \/ DataChunk
    \/ DataError
    \/ DataNone
    \/ ForEnd
    \/ ForStreamEnd
    \/ ForParsing
    \/ ForYield

Spec == Init /\ [][Next]_vars

\* The consumer keeps pulling, the generator runs while it is polled, and a
\* body that delivers no further chunk reports its end or fails.
FairSpec ==
    /\ Spec
    /\ WF_vars(Pull \/ PullDone)
    /\ WF_vars(ForEnd \/ ForStreamEnd \/ ForParsing \/ ForYield)
    /\ WF_vars(DataNone \/ DataError)

(***************************************************************************)
(* Vocabulary of the properties.                                           *)
(***************************************************************************)
IsErr(item) == item.tag = "Err"

HasErr(items) == \E i \in 1..Len(items) : IsErr(items[i])

\* The stream has terminated as the consumer sees it.
Terminated == nones > 0 \/ HasErr(out)

RECURSIVE OkItems(_)
OkItems(rs) == IF rs = <<>> THEN <<>> ELSE <<OkItem(Head(rs))>> \o OkItems(Tail(rs))

IsOkResponse(r) == r.ok

\* The failure the null document produces: a JSON error of the data class.
IsNullClass(r) == r = JsonError("data")

\* The output ends with this item.
EndsWith(item) == out # <<>> /\ out[Len(out)] = item

\* The documents of everything read so far, decoded in one go.
Whole == Decode(Flatten(fed))

\* Index of the first failing outcome of a list, 0 when there is none.
FirstFailure(rs) ==
    IF \A i \in 1..Len(rs) : rs[i].ok THEN 0
    ELSE CHOOSE i \in 1..Len(rs) : ~rs[i].ok /\ \A j \in 1..(i - 1) : rs[j].ok

LastList == returned[Len(returned)]

EarlierLists == Flatten(SubSeq(returned, 1, Len(returned) - 1))

(***************************************************************************)
(* C1  Idempotent exhaustion: once the stream has terminated (an Err item  *)
(* was yielded, or a pull returned None), the only thing that can happen   *)
(* is a pull that returns None at once: nothing more is yielded, the body  *)
(* is not read, the decoder is not called, no poll stays pending.          *)
(***************************************************************************)
C1_IdempotentExhaustion ==
    [][Terminated =>
         /\ nones' = nones + 1
         /\ ~polling'
         /\ UNCHANGED <<bodyState, pc, decoder, responses, out, fed, returned,
                        events, finishCalls>>]_vars

C1_Witness ==
    /\ HasErr(out)
    /\ out[Len(out)].kind = "Parsing"
    /\ nones >= 2

(***************************************************************************)
(* C2  Order preservation: when the stream has ended and neither a read    *)
(* nor any document the decoder returned has failed, the items yielded are *)
(* exactly Ok(record(D1)), ..., Ok(record(Dn)) for the documents D1..Dn of *)
(* the concatenation of the chunks, in that order, each once.  (Bytes left *)
(* over after Dn are the matter of C5: they add the one residue item.)     *)
(***************************************************************************)
NoFailure ==
    /\ bodyState \notin ReadError
    /\ \A i \in 1..Len(Flatten(returned)) : Flatten(returned)[i].ok

ResidueItem(pending) ==
    IF pending = <<>> THEN <<>> ELSE <<UnparsedDataUponCompletion(pending)>>

C2_OrderPreservation ==
    (pc = "done" /\ NoFailure) =>
        /\ SelectSeq(out, LAMBDA item : ~IsErr(item)) = OkItems(Whole.responses)
        /\ out = OkItems(Whole.responses) \o ResidueItem(Whole.pending)
        /\ Whole.pending = <<>> => nones >= 1

C2_Witness ==
    /\ pc = "done"
    /\ NoFailure
    /\ Len(fed) >= 2
    /\ Len(out) = 3
    /\ out[1].val = "1" /\ out[2].val = "{}" /\ out[3].val = "1"

(***************************************************************************)
(* C3  Read-error propagation: when the body fails on its k-th read, the   *)
(* stream has yielded exactly the records decodable from the k-1 chunks    *)
(* read before, then exactly one Err(Reading) wrapping the body's error,   *)
(* and has ended.                                                          *)
(***************************************************************************)
C3_ReadErrorPropagation ==
    bodyState \in ReadError =>
        /\ out = OkItems(Whole.responses) \o <<Reading(bodyState)>>
        /\ \A i \in 1..Len(Whole.responses) : Whole.responses[i].ok
        /\ pc = "done"
        /\ ~polling

C3_Witness ==
    /\ bodyState = "timeout"
    /\ Len(fed) = 2
    /\ Len(out) = 3
    /\ decoder # <<>>

(***************************************************************************)
(* C4  Parse-error propagation, as stated: whenever the outcome list of a  *)
(* chunk contains a parse failure that is not of the null class, the       *)
(* stream ends with Ok for every record before such a failure and then one *)
(* Err(Parsing) wrapping it.                                               *)
(***************************************************************************)
RecordsOf(rs) == SelectSeq(rs, IsOkResponse)

ParseFailures(rs) == {j \in 1..Len(rs) : ~rs[j].ok /\ ~IsNullClass(rs[j])}

C4_AnyFailureInList ==
    (pc = "done" /\ returned # <<>> /\ ParseFailures(LastList) # {}) =>
        \E j \in ParseFailures(LastList) :
            out = OkItems(RecordsOf(EarlierLists \o SubSeq(LastList, 1, j - 1)))
                      \o <<Parsing(LastList[j])>>

(***************************************************************************)
(* C4  amended: when the FIRST failing outcome of a chunk's list is a      *)
(* parse failure that is not of the null class, the stream yields Ok for   *)
(* every record before it (earlier chunks, earlier in the list), then one  *)
(* Err(Parsing) wrapping it as the last item; nothing after it in the list *)
(* is yielded, the body is not read again and finish() is not called.      *)
(***************************************************************************)
C4_ParseErrorPropagation ==
    (pc = "done" /\ returned # <<>> /\ FirstFailure(LastList) # 0
        /\ ~IsNullClass(LastList[FirstFailure(LastList)])) =>
        LET j == FirstFailure(LastList)
        IN  /\ out = OkItems(EarlierLists \o SubSeq(LastList, 1, j - 1))
                         \o <<Parsing(LastList[j])>>
            /\ \A i \in 1..Len(EarlierLists) : EarlierLists[i].ok
            /\ bodyState = "open"
            /\ Len(fed) = Len(returned)
            /\ finishCalls = 0
            /\ ~polling

C4_Witness ==
    /\ pc = "done"
    /\ Len(returned) = 2
    /\ Len(LastList) = 3
    /\ FirstFailure(LastList) = 2
    /\ LastList[2].variant = "Utf8"
    /\ LastList[3].ok
    /\ Len(out) = 3
    /\ nones >= 1

(***************************************************************************)
(* C5  Residue detection: when the body is exhausted and the bytes read    *)
(* end inside a document, the stream yields, after every record decoded,   *)
(* exactly one Err(UnparsedDataUponCompletion) carrying exactly the bytes  *)
(* the decoder had not consumed, and ends; with no bytes left over it ends *)
(* with no further item.                                                   *)
(***************************************************************************)
C5_ResidueDetection ==
    bodyState = "exhausted" =>
        /\ pc = "done"
        /\ finishCalls = 1
        /\ IF Whole.pending # <<>>
           THEN out = OkItems(Whole.responses)
                          \o <<UnparsedDataUponCompletion(Whole.pending)>>
           ELSE out = OkItems(Whole.responses) /\ nones >= 1

C5_Witness ==
    /\ bodyState = "exhausted"
    /\ Len(out) = 3
    /\ out[3] = UnparsedDataUponCompletion(<<"{">>)
    /\ nones >= 1

(***************************************************************************)
(* C6  Defect workaround: with the literal null document as the only chunk *)
(* the stream yields no item at all, the pull returns None (no Err), and   *)
(* decoder.finish() is not called; the body is not asked for more.         *)
(***************************************************************************)
C6_SuddenNull ==
    (fed = << <<"n">> >> /\ pc = "done") =>
        /\ out = <<>>
        /\ nones >= 1
        /\ finishCalls = 0
        /\ bodyState = "open"
        /\ ~polling

C6_Witness ==
    /\ fed = << <<"n">> >>
    /\ pc = "done"
    /\ nones = 2
    /\ out = <<>>

(***************************************************************************)
(* C7  as stated: when the stream has ended, a read failure, any parse     *)
(* failure the decoder returned that is not of the null class, and a       *)
(* non-empty residue at the end of the input have each been surfaced as an *)
(* Err item of their kind.                                                 *)
(***************************************************************************)
HasKind(items, k) == \E i \in 1..Len(items) : IsErr(items[i]) /\ items[i].kind = k

C7_EveryFailureSurfaced ==
    pc = "done" =>
        /\ bodyState \in ReadError => HasKind(out, "Reading")
        /\ ParseFailures(Flatten(returned)) # {} => HasKind(out, "Parsing")
        /\ (bodyState = "exhausted" /\ Whole.pending # <<>>) =>
              HasKind(out, "UnparsedDataUponCompletion")

(***************************************************************************)
(* C7  amended: when the stream has ended, a read failure, the FIRST       *)
(* failing outcome the decoder returned unless it is of the null class,    *)
(* and a non-empty residue at the end of the input each appear as the Err  *)
(* item that ends the stream; a stream that ends with no Err item ended on *)
(* a null-class failure or on an exhausted body with nothing left over.    *)
(* Outcomes listed after the one that ends the stream are dropped.         *)
(***************************************************************************)
C7_NoErrorSwallowed ==
    pc = "done" =>
        LET all == Flatten(returned)
            j == FirstFailure(all)
        IN  /\ bodyState \in ReadError => EndsWith(Reading(bodyState))
            /\ (j # 0 /\ ~IsNullClass(all[j])) => EndsWith(Parsing(all[j]))
            /\ (bodyState = "exhausted" /\ Whole.pending # <<>>) =>
                  EndsWith(UnparsedDataUponCompletion(Whole.pending))
            /\ ~HasErr(out) =>
                  \/ j # 0 /\ IsNullClass(all[j])
                  \/ bodyState = "exhausted" /\ Whole.pending = <<>>

C7_Witness ==
    /\ pc = "done"
    /\ Len(fed) = 2
    /\ Len(LastList) >= 2
    /\ FirstFailure(LastList) = 1
    /\ LastList[1] = Utf8Error
    /\ ~LastList[2].ok
    /\ LastList[2] # Utf8Error
    /\ EndsWith(Parsing(Utf8Error))

(***************************************************************************)
(* C8  Terminal errors are reported once: an Err item is always the last   *)
(* item of the output, so there is at most one and all before it are Ok.   *)
(***************************************************************************)
C8_ErrIsLast == \A i \in 1..Len(out) : IsErr(out[i]) => i = Len(out)

C8_Witness ==
    /\ Len(out) >= 3
    /\ IsErr(out[Len(out)])
    /\ nones >= 1

(***************************************************************************)
(* C9  Finite output for finite input: with a body that delivers finitely  *)
(* many chunks and then ends or fails, and a consumer that keeps pulling,  *)
(* a pull eventually returns None.                                         *)
(***************************************************************************)
C9_EventuallyEnds == <>(nones >= 1)

C9_Witness ==
    /\ nones >= 1
    /\ Len(fed) >= 3
    /\ Len(out) >= 2

(***************************************************************************)
(* C10  as stated: whenever the stream has ended, decoder.finish() has     *)
(* been called exactly once.                                               *)
(***************************************************************************)
C10_FinishedExactlyOnce == pc = "done" => finishCalls = 1

(***************************************************************************)
(* C10  amended: decoder.finish() is called at most once; when the stream  *)
(* has ended it was called once if the body was exhausted, and not at all  *)
(* if the stream ended on Reading, Parsing or the null-class failure.      *)
(***************************************************************************)
C10_FinishOnlyOnExhaustion ==
    /\ finishCalls <= 1
    /\ pc = "done" => finishCalls = (IF bodyState = "exhausted" THEN 1 ELSE 0)
    /\ pc # "done" => finishCalls = 0

C10_Witness ==
    /\ pc = "done"
    /\ bodyState = "exhausted"
    /\ finishCalls = 1
    /\ Len(fed) >= 2
    /\ nones >= 2

(***************************************************************************)
(* C11  Multi-document-per-chunk: when one process_next_chunk call returns *)
(* n >= 2 records (and nothing else), the stream yields exactly those n    *)
(* Ok items in the decoder's order: while the list is being walked, the    *)
(* items yielded from it are the part of the list already walked and what  *)
(* is left to walk is the rest of it; and between the first and the n-th   *)
(* yield the body is not read and the decoder is not called.               *)
(***************************************************************************)
AllOk(rs) == \A i \in 1..Len(rs) : rs[i].ok

\* How many body.data() calls have returned.
Reads == Len(fed) + (IF bodyState = "open" THEN 0 ELSE 1)

WalkingRecords ==
    /\ pc = "for"
    /\ returned # <<>>
    /\ Len(LastList) >= 2
    /\ AllOk(LastList)

C11_MultiDocumentChunk ==
    /\ [](WalkingRecords =>
            LET walked == Len(LastList) - Len(responses)
            IN  /\ responses = SubSeq(LastList, walked + 1, Len(LastList))
                /\ out = OkItems(EarlierLists \o SubSeq(LastList, 1, walked)))
    /\ [][(WalkingRecords /\ responses # <<>>) =>
            /\ Reads' = Reads
            /\ UNCHANGED <<decoder, returned, finishCalls, pc>>
            /\ (out' # out => out' = Append(out, OkItem(Head(responses))))]_vars

C11_Witness ==
    /\ WalkingRecords
    /\ Len(returned) = 2
    /\ LastList = <<OkResponse("{}"), OkResponse("1")>>
    /\ responses = <<>>
    /\ Len(out) = 3

(***************************************************************************)
(* C12  Split-document correctness: with no read failure, the output of a  *)
(* finished stream is a function of the concatenation of the chunks alone. *)
(* Expected(bytes) is that function, computed from the bytes decoded in    *)
(* one piece; a stream that ended before the body did gives the same       *)
(* output for whatever bytes the body had left.  So a document split over  *)
(* several chunks gives what the same document in one chunk gives.         *)
(***************************************************************************)
Expected(bytes) ==
    LET whole == Decode(bytes)
        j == FirstFailure(whole.responses)
    IN  IF j = 0 THEN OkItems(whole.responses) \o ResidueItem(whole.pending)
        ELSE IF IsNullClass(whole.responses[j])
             THEN OkItems(SubSeq(whole.responses, 1, j - 1))
             ELSE OkItems(SubSeq(whole.responses, 1, j - 1))
                      \o <<Parsing(whole.responses[j])>>

C12_ChunkBoundariesDoNotMatter ==
    (pc = "done" /\ bodyState \notin ReadError) =>
        IF bodyState = "exhausted"
        THEN out = Expected(Flatten(fed))
        ELSE \A rest \in SeqsUpTo(Byte, Remaining) :
                 out = Expected(Flatten(fed) \o rest)

C12_Witness ==
    /\ pc = "done"
    /\ bodyState = "exhausted"
    /\ fed = << <<"1", "{">>, <<"}">> >>
    /\ out = <<OkItem(OkResponse("1")), OkItem(OkResponse("{}"))>>

(***************************************************************************)
(* C13  No retry, no read after termination: once the body has reported a  *)
(* read failure or its end, or the stream has ended on Parsing or on the   *)
(* null-class failure, body.data() is never called again and              *)
(* process_next_chunk is never called again.                               *)
(***************************************************************************)
C13_NoReadAfterTermination ==
    [][(bodyState # "open" \/ Terminated) =>
          /\ Reads' = Reads
          /\ UNCHANGED <<bodyState, fed, returned, decoder, events>>]_vars

C13_Witness ==
    /\ bodyState = "open"
    /\ HasKind(out, "Parsing")
    /\ Remaining >= 2
    /\ nones >= 2

(***************************************************************************)
(* C14  Finalization only on the exhaustion path: decoder.finish() is      *)
(* called at most once; it has been called exactly when the body has       *)
(* reported its end, and the call is made in the step in which a stream    *)
(* that has not terminated learns of that end; after a read failure, a     *)
(* Parsing or a null-class termination it is never called.                 *)
(***************************************************************************)
C14_FinishOnExhaustionPath ==
    /\ [](/\ finishCalls \in {0, 1}
          /\ finishCalls = 1 <=> bodyState = "exhausted")
    /\ [][finishCalls' # finishCalls =>
            /\ ~Terminated
            /\ polling /\ pc = "data"
            /\ bodyState = "open" /\ bodyState' = "exhausted"]_vars
    /\ [][(Terminated \/ bodyState \in ReadError) => finishCalls' = finishCalls]_vars

C14_Witness ==
    /\ finishCalls = 1
    /\ bodyState = "exhausted"
    /\ Len(fed) = 3
    /\ HasKind(out, "UnparsedDataUponCompletion")

(***************************************************************************)
(* C15  as stated: whenever a null-class failure appears in the outcome    *)
(* list of a chunk, the stream ends with Ok for the records before such a  *)
(* failure and with no Err item.                                           *)
(***************************************************************************)
NullFailures(rs) == {j \in 1..Len(rs) : IsNullClass(rs[j])}

C15_AnyNullInList ==
    (pc = "done" /\ returned # <<>> /\ NullFailures(LastList) # {}) =>
        /\ ~HasErr(out)
        /\ \E j \in NullFailures(LastList) :
              out = OkItems(RecordsOf(EarlierLists \o SubSeq(LastList, 1, j - 1)))

(***************************************************************************)
(* C15  amended: when the FIRST failing outcome of a chunk's list is of    *)
(* the null class, wherever in the stream that is, the records before it   *)
(* (earlier chunks, earlier in the list) are yielded as Ok and the stream  *)
(* ends with no Err item; every outcome after it in the list is dropped,   *)
(* the body is not read again, and finish() is not called even when the    *)
(* decoder holds unconsumed bytes, which stay in the decoder.              *)
(***************************************************************************)
C15_NullAtAnyPosition ==
    (pc = "done" /\ returned # <<>> /\ FirstFailure(LastList) # 0
        /\ IsNullClass(LastList[FirstFailure(LastList)])) =>
        LET j == FirstFailure(LastList)
        IN  /\ out = OkItems(EarlierLists \o SubSeq(LastList, 1, j - 1))
            /\ AllOk(EarlierLists)
            /\ nones >= 1
            /\ bodyState = "open"
            /\ Reads = Len(returned)
            /\ finishCalls = 0
            /\ decoder = Whole.pending
            /\ ~polling

C15_Witness ==
    /\ pc = "done"
    /\ Len(returned) = 2
    /\ LastList = <<OkResponse("1"), JsonError("data")>>
    /\ decoder = <<"{">>
    /\ Len(out) = 2
    /\ nones = 2

(***************************************************************************)
(* C16  Lazy pull / cancellation: body.data() and the decoder are called   *)
(* only while a pull of the consumer is being served, and only once every  *)
(* outcome of the chunks read before has been delivered; handing over an   *)
(* item ends the pull.  So while the consumer does not pull, no read of    *)
(* the body and no decoder call happens.                                   *)
(***************************************************************************)
BodyOrDecoderTouched ==
    \/ Reads' # Reads
    \/ returned' # returned
    \/ decoder' # decoder
    \/ finishCalls' # finishCalls

C16_LazyPull ==
    /\ [][BodyOrDecoderTouched =>
            /\ polling
            /\ pc = "data"
            /\ responses = <<>>
            /\ out = OkItems(Flatten(returned))]_vars
    /\ [][out' # out => ~polling']_vars
    /\ [][~polling => (~BodyOrDecoderTouched /\ UNCHANGED <<fed, out, events, pc>>)]_vars

C16_Witness ==
    /\ ~polling
    /\ pc = "for"
    /\ Len(fed) = 2
    /\ Len(responses) = 2
    /\ Len(out) = 2
    /\ Remaining = 0

(***************************************************************************)
(* C17  Failure classification: when the loop looks at a failing outcome,  *)
(* the stream ends silently (no item, the pull returns None) if and only   *)
(* if the outcome is a JSON error of the data class; every other failure,  *)
(* a JSON error of another class or an error that is not a JSON error,     *)
(* is yielded as Err(Parsing) wrapping it.  One of the two always happens  *)
(* and never both.                                                         *)
(***************************************************************************)
LooksAtFailure ==
    /\ polling
    /\ pc = "for"
    /\ responses # <<>>
    /\ ~Head(responses).ok

C17_FailureClassification ==
    [][LooksAtFailure =>
         LET r == Head(responses)
         IN  /\ pc' = "done"
             /\ ~polling'
             /\ IF r.variant = "Json" /\ r.class = "data"
                THEN out' = out /\ nones' = nones + 1
                ELSE out' = Append(out, Parsing(r)) /\ nones' = nones]_vars

C17_Witness ==
    /\ pc = "done"
    /\ Len(returned) = 2
    /\ Len(LastList) >= 1
    /\ LastList[1] = JsonError("syntax")
    /\ EndsWith(Parsing(JsonError("syntax")))
    /\ Len(out) = 2
    /\ nones = 1

(***************************************************************************)
(* C18  Prefix invariant: in every reachable state, whatever way the       *)
(* stream ends, the Ok records yielded so far are a prefix of the          *)
(* successful outcomes the decoder has returned so far, in chunk order:    *)
(* none twice, none skipped before a later one, none out of order.         *)
(***************************************************************************)
IsPrefix(s, t) == Len(s) <= Len(t) /\ s = SubSeq(t, 1, Len(s))

YieldedRecords == SelectSeq(out, LAMBDA item : ~IsErr(item))

C18_PrefixInvariant ==
    IsPrefix(YieldedRecords, OkItems(RecordsOf(Flatten(returned))))

C18_Witness ==
    /\ pc = "done"
    /\ Len(returned) = 2
    /\ LastList = <<OkResponse("1"), Utf8Error, OkResponse("1")>>
    /\ Len(YieldedRecords) = 2
    /\ Len(RecordsOf(Flatten(returned))) = 3
    /\ HasKind(out, "Parsing")

(***************************************************************************)
(* C19  One ChunkProcessed event per chunk: in every state the events      *)
(* emitted are the byte lengths of the chunks read, one per chunk and in   *)
(* order; the event of a chunk is out before any of its outcomes is looked *)
(* at, so it is there also when the chunk ends the stream with Parsing or  *)
(* the null-class failure; a failed read and the end of the body emit      *)
(* none.                                                                   *)
(***************************************************************************)
C19_OneEventPerChunk ==
    /\ [](/\ Len(events) = Len(fed)
          /\ Len(events) = Len(returned)
          /\ \A i \in 1..Len(fed) : events[i] = Len(fed[i]))
    /\ [][(out' # out \/ responses' # responses \/ pc' = "done") =>
            Len(events') = Len(returned')]_vars
    /\ [][(bodyState' # bodyState) => events' = events]_vars

C19_Witness ==
    /\ pc = "done"
    /\ events = <<1, 3>>
    /\ bodyState = "open"
    /\ FirstFailure(LastList) = 1
    /\ nones >= 1

(***************************************************************************)
(* C20  Decoder feeding discipline: process_next_chunk is called once for  *)
(* each chunk read, in the order read and with exactly that chunk's bytes: *)
(* feeding the chunks read, one by one, to a fresh decoder gives the very  *)
(* outcome lists and buffer the stream's decoder has.  The decoder's       *)
(* buffer changes only in a step that reads a chunk or in the one step     *)
(* that calls finish().                                                    *)
(***************************************************************************)
RECURSIVE Replay(_, _)
Replay(pending, chunks) ==
    IF chunks = <<>> THEN [lists |-> <<>>, pending |-> pending]
    ELSE LET r == process_next_chunk(pending, Head(chunks))
             rest == Replay(r.pending, Tail(chunks))
         IN  [lists |-> <<r.responses>> \o rest.lists, pending |-> rest.pending]

C20_FeedingDiscipline ==
    /\ [](/\ Len(returned) = Len(fed)
          /\ returned = Replay(<<>>, fed).lists
          /\ decoder = (IF finishCalls = 0 THEN Replay(<<>>, fed).pending ELSE <<>>))
    /\ [][decoder' # decoder =>
            \/ Len(fed') = Len(fed) + 1 /\ finishCalls' = finishCalls
            \/ fed' = fed /\ finishCalls = 0 /\ finishCalls' = 1]_vars
    /\ [][fed' # fed =>
            /\ Len(fed') = Len(fed) + 1
            /\ SubSeq(fed', 1, Len(fed)) = fed
            /\ Len(returned') = Len(returned) + 1]_vars

C20_Witness ==
    /\ Len(fed) = 3
    /\ fed[1] = <<"{">>
    /\ fed[3] = <<"{">>
    /\ returned[2] = <<OkResponse("{}"), OkResponse("1")>>
    /\ finishCalls = 1
    /\ decoder = <<>>
    /\ HasKind(out, "UnparsedDataUponCompletion")

====
